---- MODULE Spec2Model ----
(***************************************************************************)
(* A model of ll::Grid (src/src/lib.cc): the process-wide character map    *)
(* MAP, its visited overlay DONE, the configured extent WIDTH x HEIGHT,    *)
(* and the operations set, init, refresh, walk, conn_area, next and stat.  *)
(*                                                                         *)
(* The backing storage (1024 x 1024 in the source) is scaled down to       *)
(* W x H, and uintptr_t (64 bits in the source) to PtrBits bits, so that   *)
(* the wrap-around of x - 1 at x = 0 and of Grid() : x(-1), y(-1) is kept. *)
(***************************************************************************)
EXTENDS Integers, Sequences, FiniteSets, TLC

\* Extent of the backing storage MAP[W][H] and of DONE (W * H flags).
W == 3
H == 2

\* Width of uintptr_t, the type of Grid::x, Grid::y, WIDTH and HEIGHT.
PtrBits == 8

UINTPTR_MOD == 2 ^ PtrBits

\* The characters a stream may hold, and the value of a zero-initialised char.
Tokens == {"A", "B"}
NUL == "0"
Chars == Tokens \cup {NUL}

VARIABLES
    MAP,        \* MAP[x][y], the cell contents
    DONE,       \* DONE[i], the visited flags, indexed by y * WIDTH + x
    WIDTH,      \* configured width
    HEIGHT,     \* configured height
    ub,         \* TRUE once a call went outside the backing storage, or an
                \* int32_t computation overflowed
    op,         \* name of the last call
    arg,        \* argument of the last call
    ret,        \* value returned by the last call
    cellAcc,    \* coordinates whose cell (tile) the last call read or wrote
    flagAcc,    \* coordinates whose done() flag the last call read or wrote
    scan,       \* progress of a refresh / next / conn_area enumeration
    prevArea,   \* a conn_area call (its argument, its result, whether it came
                \* right after a refresh, whether no cell of its component
                \* was visited before it), the refresh after it, the
                \* conn_area after that
    nset,       \* number of set() calls made
    ninit,      \* number of init() calls made
    stack,      \* the call stack of a walk in progress, innermost call last
    wk,         \* the cond the walk in progress was called with
    calls,      \* invocations of walk made by the walk in progress
    marked,     \* per coordinate: times done() was set since the last refresh
    acted,      \* per coordinate: times `then` ran on it since the last refresh
    iter        \* the iterator of a range-based for loop in progress over a
                \* Range or a Permut

vars == <<MAP, DONE, WIDTH, HEIGHT, ub, op, arg, ret, cellAcc, flagAcc,
          scan, prevArea, nset, ninit, stack, wk, calls, marked, acted, iter>>

\* What the calls of a client on Grid leave alone: the bookkeeping of a walk
\* that is followed call by call, and the loops over Range and Permut.
walkVars == <<stack, wk, calls, marked, acted, iter>>

\* What the steps of a walk leave alone.
callVars == <<ub, ret, cellAcc, flagAcc, scan, prevArea, nset, ninit, iter>>

\* What the loops over Range and Permut, fact and printed leave alone: all of
\* Grid.
gridVars == <<MAP, DONE, WIDTH, HEIGHT, cellAcc, flagAcc, scan, prevArea,
              nset, ninit, stack, wk, calls, marked, acted>>

----------------------------------------------------------------------------
(* Coordinates: class Grid's non-static part.                              *)

\* Grid(uintptr_t x, uintptr_t y)
Grid(x, y) == [x |-> x, y |-> y]

\* Grid() : x(-1), y(-1), converted to uintptr_t
Sentinel == Grid((0 - 1 + UINTPTR_MOD) % UINTPTR_MOD,
                 (0 - 1 + UINTPTR_MOD) % UINTPTR_MOD)

\* Grid dx(intptr_t dx): this->x + dx in uintptr_t arithmetic
dx(c, d) == Grid((c.x + d + UINTPTR_MOD) % UINTPTR_MOD, c.y)

\* Grid dy(intptr_t dy)
dy(c, d) == Grid(c.x, (c.y + d + UINTPTR_MOD) % UINTPTR_MOD)

\* valid() as if the test of y let y = HEIGHT through.
valid_OffByOne(c) == c.x >= 0 /\ c.x < WIDTH /\ c.y >= 0 /\ c.y <= HEIGHT

\* bool valid()
valid(c) == c.x >= 0 /\ c.x < WIDTH /\ c.y >= 0 /\ c.y < HEIGHT

\* T& tile(): MAP[this->x][this->y]
tile(c) == MAP[c.x][c.y]

\* done()'s index as if the row stride WIDTH were left out.
doneIndex_NoStride(c) == (c.y + c.x) % UINTPTR_MOD

\* The index done() takes in DONE: this->y * WIDTH + this->x
doneIndex(c) == (c.y * WIDTH + c.x) % UINTPTR_MOD

\* done() read in the overlay d
done(c, d) == d[doneIndex(c)]

\* neighbor() as if the step up, dy(-1), were left out.
neighbor_NoUp(c) == SelectSeq(<<dy(c, 1), dx(c, 1), dx(c, 0 - 1)>>, valid)

\* neighbor() as if the step left, dx(-1), were left out.
neighbor_NoLeft(c) == SelectSeq(<<dy(c, 1), dx(c, 1), dy(c, 0 - 1)>>, valid)

\* neighbor() as if dx(1) came before dy(1) in the initializer list.
neighbor_RightFirst(c) ==
    SelectSeq(<<dx(c, 1), dy(c, 1), dx(c, 0 - 1), dy(c, 0 - 1)>>, valid)

\* std::vector<Grid> neighbor()
neighbor(c) == SelectSeq(<<dy(c, 1), dx(c, 1), dx(c, 0 - 1), dy(c, 0 - 1)>>, valid)

\* The coordinates of the backing storage.
Storage == {Grid(x, y) : x \in 0 .. W - 1, y \in 0 .. H - 1}

\* The configured extent lies within the backing storage.
InStorage == WIDTH <= W /\ HEIGHT <= H

----------------------------------------------------------------------------
(* walk, conn_area, next, stat as the code computes them.                  *)

\* The predicates passed to walk as `cond`:
\*   "same": conn_area's lambda, map.tile() == this->tile() (this = k.ref)
\*   "is"  : the cell holds a given character
\*   "any" : always true
condSame(c) == [kind |-> "same", sym |-> NUL, ref |-> c]
condIs(s)   == [kind |-> "is", sym |-> s, ref |-> Sentinel]
condAny     == [kind |-> "any", sym |-> NUL, ref |-> Sentinel]

\* conn_area's lambda as if it accepted every cell.
cond_Always(k, c) == TRUE

cond(k, c) ==
    CASE k.kind = "same" -> tile(c) = tile(k.ref)
      [] k.kind = "is"   -> tile(c) = k.sym
      [] k.kind = "any"  -> TRUE

\* The cells an evaluation of cond(k, c) reads.
condCells(k, c) ==
    CASE k.kind = "same" -> {c, k.ref}
      [] k.kind = "is"   -> {c}
      [] k.kind = "any"  -> {}

\* The bookkeeping of one top-level walk, started on the overlay d:
\*   DONE  the overlay, then  the coordinates `then` ran on, in order,
\*   marks the coordinates whose done() was set, in order,
\*   cells / flags  the coordinates whose tile / done() was accessed,
\*   calls the number of invocations of walk.
walkStart(d) ==
    [DONE |-> d, then |-> <<>>, marks |-> <<>>, cells |-> {}, flags |-> {},
     calls |-> 0]

RECURSIVE walk(_, _, _)
RECURSIVE walkEach(_, _, _, _)

\* walk as if this->done() were tested before this->valid().
walk_DoneFirst(c, k, st) ==
    LET st0 == [st EXCEPT !.calls = @ + 1, !.flags = @ \cup {c}] IN
    IF ~valid(c) THEN st0
    ELSE IF done(c, st0.DONE) THEN st0
         ELSE LET st2 == [st0 EXCEPT !.cells = @ \cup condCells(k, c)] IN
              IF ~cond(k, c) THEN st2
              ELSE LET st3 == [st2 EXCEPT !.DONE[doneIndex(c)] = TRUE,
                                          !.marks = Append(@, c)]
                       st4 == walkEach(neighbor(c), 1, k, st3)
                   IN  [st4 EXCEPT !.then = Append(@, c)]

\* void walk(cond, then) const, on the cell c
walk(c, k, st) ==
    LET st0 == [st EXCEPT !.calls = @ + 1] IN
    IF ~valid(c) THEN st0
    ELSE LET st1 == [st0 EXCEPT !.flags = @ \cup {c}] IN
         IF done(c, st1.DONE) THEN st1
         ELSE LET st2 == [st1 EXCEPT !.cells = @ \cup condCells(k, c)] IN
              IF ~cond(k, c) THEN st2
              ELSE LET st3 == [st2 EXCEPT !.DONE[doneIndex(c)] = TRUE,
                                          !.marks = Append(@, c)]
                       st4 == walkEach(neighbor(c), 1, k, st3)
                   IN  [st4 EXCEPT !.then = Append(@, c)]

\* for (auto g : this->neighbor()) g.walk(cond, then);
walkEach(nb, i, k, st) ==
    IF i > Len(nb) THEN st
    ELSE walkEach(nb, i + 1, k, walk(nb[i], k, st))

\* conn_area() as if it cleared the visited flags before walking.
conn_area_Refreshing(c) ==
    walk(c, condSame(c), walkStart([i \in DOMAIN DONE |-> FALSE]))

\* conn_area() as if it read this->tile() once, before calling walk.
conn_area_EagerTile(c) ==
    LET r == walk(c, condSame(c), walkStart(DONE)) IN
    [r EXCEPT !.cells = @ \cup {c}]

\* uint64_t conn_area() const: the walk it runs; ans is Len(then)
conn_area(c) == walk(c, condSame(c), walkStart(DONE))

\* The scan as if x were the outer loop and y the inner one.
scanAt_ColumnMajor(i) == Grid((i - 1) \div HEIGHT, (i - 1) % HEIGHT)

\* for (auto y : rng(HEIGHT)) for (auto x : rng(WIDTH)): the i-th cell visited
scanAt(i) == Grid((i - 1) % WIDTH, (i - 1) \div WIDTH)

RECURSIVE nextFrom(_, _, _)
\* static Grid next(T const& pat), from the i-th cell of the scan on
nextFrom(pat, i, acc) ==
    IF i > WIDTH * HEIGHT THEN [acc EXCEPT !.ret = Sentinel]
    ELSE LET c  == scanAt(i)
             a1 == [acc EXCEPT !.cells = @ \cup {c}]
         IN  IF tile(c) # pat THEN nextFrom(pat, i + 1, a1)
             ELSE LET a2 == [a1 EXCEPT !.flags = @ \cup {c}] IN
                  IF ~done(c, DONE) THEN [a2 EXCEPT !.ret = c]
                  ELSE nextFrom(pat, i + 1, a2)

next(pat) == nextFrom(pat, 1, [ret |-> Sentinel, cells |-> {}, flags |-> {}])

RECURSIVE statFrom(_, _, _)
\* static uint64_t stat(T const& pat), from the i-th cell of the scan on
statFrom(pat, i, acc) ==
    IF i > WIDTH * HEIGHT THEN acc
    ELSE LET c == scanAt(i) IN
         statFrom(pat, i + 1,
                  [acc EXCEPT !.cells = @ \cup {c},
                              !.ret = IF tile(c) = pat THEN @ + 1 ELSE @])

\* stat() as if it skipped the cells already visited, as next() does.
stat_Unvisited(pat) ==
    [ret |-> Cardinality({i \in 1 .. WIDTH * HEIGHT :
                            tile(scanAt(i)) = pat /\ ~done(scanAt(i), DONE)}),
     cells |-> {scanAt(i) : i \in 1 .. WIDTH * HEIGHT}]

stat(pat) == statFrom(pat, 1, [ret |-> 0, cells |-> {}])

RECURSIVE outputRow(_, _, _)
\* for (auto x : rng(WIDTH)) output << MAP[x][y]; output << std::endl;
outputRow(x, y, out) ==
    IF x >= WIDTH THEN Append(out, "\n")
    ELSE outputRow(x + 1, y, Append(out, MAP[x][y]))

RECURSIVE outputFrom(_, _)
\* for (auto y : rng(HEIGHT)) { ... }, from row y on
outputFrom(y, out) ==
    IF y >= HEIGHT THEN out ELSE outputFrom(y + 1, outputRow(0, y, out))

RECURSIVE outputColumn(_, _, _)
outputColumn(x, y, out) ==
    IF y >= HEIGHT THEN Append(out, "\n")
    ELSE outputColumn(x, y + 1, Append(out, MAP[x][y]))

RECURSIVE outputColumnsFrom(_, _)
outputColumnsFrom(x, out) ==
    IF x >= WIDTH THEN out ELSE outputColumnsFrom(x + 1, outputColumn(x, 0, out))

\* output() as if x were the outer loop and y the inner one.
output_ColumnMajor == outputColumnsFrom(0, <<>>)

\* static void output(std::ostream& output): the characters written
output == outputFrom(0, <<>>)

----------------------------------------------------------------------------
(* What the claims speak of, stated without the traversal.                 *)

\* The coordinates that are valid under the configured extent.
ValidCells == {Grid(x, y) : x \in 0 .. WIDTH - 1, y \in 0 .. HEIGHT - 1}

\* a and b are 4-adjacent.
Adjacent(a, b) ==
    \/ a.x = b.x /\ (a.y = b.y + 1 \/ b.y = a.y + 1)
    \/ a.y = b.y /\ (a.x = b.x + 1 \/ b.x = a.x + 1)

RECURSIVE Grow(_, _)
\* The least set holding S and closed under stepping to a 4-adjacent valid
\* cell that holds the character s.
Grow(S, s) ==
    LET T == S \cup {c \in ValidCells :
                       MAP[c.x][c.y] = s /\ \E d \in S : Adjacent(c, d)}
    IN  IF T = S THEN S ELSE Grow(T, s)

\* The connected component of the valid cell c: the cells holding c's
\* character that a chain of 4-adjacent cells holding it links to c.
Component(c) == Grow({c}, MAP[c.x][c.y])

\* c comes before d in the order rows y = 0.., within a row x = 0..
Before(c, d) == c.y < d.y \/ (c.y = d.y /\ c.x < d.x)

\* The 3 x 2 map with rows AAB / ABB (the first two rows of the 3 x 3 example).
IsExampleMap ==
    /\ WIDTH = 3 /\ HEIGHT = 2
    /\ MAP[0][0] = "A" /\ MAP[1][0] = "A" /\ MAP[2][0] = "B"
    /\ MAP[0][1] = "A" /\ MAP[1][1] = "B" /\ MAP[2][1] = "B"

----------------------------------------------------------------------------
(* The calls a client makes, one action per call.                          *)

\* Bounds of the number of set() and of init() calls in one run.
MaxSet == 1
MaxInit == 1

\* The widths and heights set() is called with: positive, up to one more
\* than the backing storage holds.
Widths  == 1 .. W + 1
Heights == 1 .. H + 1

\* The coordinates walk and conn_area are called on: every cell of the
\* storage, the sentinel Grid(), and (0,0) stepped by -1 in x.
Probes == Storage \cup {Sentinel, dx(Grid(0, 0), 0 - 1)}

allFalse == [i \in 0 .. W * H - 1 |-> FALSE]
noCount  == [c \in Storage |-> 0]

NoScan  == [phase |-> "off", sym |-> NUL, sum |-> 0, n |-> 0, at |-> Sentinel]
NewScan == [NoScan EXCEPT !.phase = "fresh"]
NoArea  == [phase |-> "none", arg |-> Sentinel, ret |-> 0, fresh |-> FALSE,
            untouched |-> FALSE]
NoIter  == [kind |-> "none", curr |-> 0, right |-> 0, idx |-> <<>>,
            buf |-> <<>>, next |-> FALSE]

\* The state of the statics after program start: MAP is zero-initialised,
\* DONE = std::vector(W * H, false), WIDTH = W, HEIGHT = H.
Init ==
    /\ MAP = [x \in 0 .. W - 1 |-> [y \in 0 .. H - 1 |-> NUL]]
    /\ DONE = allFalse
    /\ WIDTH = W
    /\ HEIGHT = H
    /\ ub = FALSE
    /\ op = "new"
    /\ arg = "none"
    /\ ret = "void"
    /\ cellAcc = {}
    /\ flagAcc = {}
    /\ scan = NoScan
    /\ prevArea = NoArea
    /\ nset = 0
    /\ ninit = 0
    /\ stack = <<>>
    /\ wk = condAny
    /\ calls = 0
    /\ marked = noCount
    /\ acted = noCount
    /\ iter = NoIter

\* static void set(uintptr_t width, uintptr_t height)
Call_set(w, h) ==
    /\ ~ub
    /\ nset < MaxSet
    /\ nset' = nset + 1
    /\ WIDTH' = w
    /\ HEIGHT' = h
    /\ op' = "set"
    /\ arg' = <<w, h>>
    /\ ret' = "void"
    /\ cellAcc' = {}
    /\ flagAcc' = {}
    /\ scan' = NoScan
    /\ prevArea' = NoArea
    /\ UNCHANGED <<MAP, DONE, ub, ninit>>
    /\ UNCHANGED walkVars

\* init() as if it cleared the visited flags, as refresh() does.
Call_init_Refreshing(stream) ==
    /\ ~ub
    /\ InStorage
    /\ ninit < MaxInit
    /\ ninit' = ninit + 1
    /\ MAP' = [x \in 0 .. W - 1 |-> [y \in 0 .. H - 1 |->
                 IF x < WIDTH /\ y < HEIGHT THEN stream[y * WIDTH + x + 1]
                 ELSE MAP[x][y]]]
    /\ DONE' = [i \in DOMAIN DONE |-> FALSE]
    /\ op' = "init"
    /\ arg' = stream
    /\ ret' = "void"
    /\ cellAcc' = {scanAt(i) : i \in 1 .. WIDTH * HEIGHT}
    /\ flagAcc' = {}
    /\ scan' = NoScan
    /\ prevArea' = NoArea
    /\ UNCHANGED <<WIDTH, HEIGHT, ub, nset>>
    /\ UNCHANGED walkVars

\* static void init(std::istream& input), on a stream holding one token per cell
Call_init(stream) ==
    /\ ~ub
    /\ InStorage
    /\ ninit < MaxInit
    /\ ninit' = ninit + 1
    /\ MAP' = [x \in 0 .. W - 1 |-> [y \in 0 .. H - 1 |->
                 IF x < WIDTH /\ y < HEIGHT THEN stream[y * WIDTH + x + 1]
                 ELSE MAP[x][y]]]
    /\ op' = "init"
    /\ arg' = stream
    /\ ret' = "void"
    /\ cellAcc' = {scanAt(i) : i \in 1 .. WIDTH * HEIGHT}
    /\ flagAcc' = {}
    /\ scan' = NoScan
    /\ prevArea' = NoArea
    /\ UNCHANGED <<DONE, WIDTH, HEIGHT, ub, nset>>
    /\ UNCHANGED walkVars

\* refresh() as if it cleared one flag fewer than the configured extent holds.
Call_refresh_OffByOne ==
    /\ ~ub
    /\ DONE' = [i \in DOMAIN DONE |->
                  IF i < WIDTH * HEIGHT - 1 THEN FALSE ELSE DONE[i]]
    /\ op' = "refresh"
    /\ arg' = "none"
    /\ ret' = "void"
    /\ cellAcc' = {}
    /\ flagAcc' = {}
    /\ scan' = NewScan
    /\ prevArea' = IF prevArea.phase = "first"
                   THEN [prevArea EXCEPT !.phase = "refreshed"]
                   ELSE NoArea
    /\ UNCHANGED <<MAP, WIDTH, HEIGHT, ub, nset, ninit>>
    /\ UNCHANGED walkVars

\* static void refresh(): DONE.assign(DONE.size(), false)
Call_refresh ==
    /\ ~ub
    /\ DONE' = [i \in DOMAIN DONE |-> FALSE]
    /\ op' = "refresh"
    /\ arg' = "none"
    /\ ret' = "void"
    /\ cellAcc' = {}
    /\ flagAcc' = {}
    /\ scan' = NewScan
    /\ prevArea' = IF prevArea.phase = "first"
                   THEN [prevArea EXCEPT !.phase = "refreshed"]
                   ELSE NoArea
    /\ UNCHANGED <<MAP, WIDTH, HEIGHT, ub, nset, ninit>>
    /\ UNCHANGED walkVars

\* c.conn_area() called by a client
Call_conn_area(c) ==
    /\ ~ub
    /\ InStorage
    /\ LET r == conn_area(c) IN
        /\ DONE' = r.DONE
        /\ ret' = Len(r.then)
        /\ cellAcc' = r.cells
        /\ flagAcc' = r.flags
        /\ scan' = IF scan.phase = "found" /\ scan.at = c
                   THEN [scan EXCEPT !.phase = "counted",
                                     !.sum = @ + Len(r.then),
                                     !.n = @ + 1,
                                     !.at = Sentinel]
                   ELSE NoScan
        /\ prevArea' = IF prevArea.phase = "refreshed"
                       THEN [prevArea EXCEPT !.phase = "second"]
                       ELSE [phase |-> "first", arg |-> c, ret |-> Len(r.then),
                             fresh |-> (op = "refresh"),
                             untouched |-> (valid(c) /\ \A d \in Component(c) :
                                                          ~done(d, DONE))]
    /\ op' = "conn_area"
    /\ arg' = c
    /\ UNCHANGED <<MAP, WIDTH, HEIGHT, ub, nset, ninit>>
    /\ UNCHANGED walkVars

\* Grid::next(pat) called by a client
Call_next(pat) ==
    /\ ~ub
    /\ InStorage
    /\ LET r == next(pat) IN
        /\ ret' = r.ret
        /\ cellAcc' = r.cells
        /\ flagAcc' = r.flags
        /\ scan' = IF scan.phase = "fresh"
                      \/ (scan.phase = "counted" /\ scan.sym = pat)
                   THEN [scan EXCEPT !.phase = IF valid(r.ret) THEN "found" ELSE "end",
                                     !.sym = pat,
                                     !.at = r.ret]
                   ELSE NoScan
    /\ op' = "next"
    /\ arg' = pat
    /\ prevArea' = NoArea
    /\ UNCHANGED <<MAP, DONE, WIDTH, HEIGHT, ub, nset, ninit>>
    /\ UNCHANGED walkVars

\* Grid::stat(pat) called by a client
Call_stat(pat) ==
    /\ ~ub
    /\ InStorage
    /\ LET r == stat(pat) IN
        /\ ret' = r.ret
        /\ cellAcc' = r.cells
    /\ flagAcc' = {}
    /\ op' = "stat"
    /\ arg' = pat
    /\ scan' = NoScan
    /\ prevArea' = NoArea
    /\ UNCHANGED <<MAP, DONE, WIDTH, HEIGHT, ub, nset, ninit>>
    /\ UNCHANGED walkVars

\* Grid::output(out) called by a client; ret is the text written, and arg
\* keeps the stream of an init() that came right before it, if one did.
Call_output ==
    /\ ~ub
    /\ InStorage
    /\ ret' = output
    /\ cellAcc' = {scanAt(i) : i \in 1 .. WIDTH * HEIGHT}
    /\ flagAcc' = {}
    /\ op' = "output"
    /\ arg' = IF op = "init" THEN arg ELSE <<>>
    /\ scan' = NoScan
    /\ prevArea' = NoArea
    /\ UNCHANGED <<MAP, DONE, WIDTH, HEIGHT, ub, nset, ninit>>
    /\ UNCHANGED walkVars

\* init, output, conn_area, next or stat called while the configured extent exceeds
\* MAP[W][H]: the call indexes MAP (and DONE) out of bounds, which is
\* undefined behaviour; nothing is known of the program from then on.
Call_undefined ==
    /\ ~ub
    /\ ~InStorage
    /\ ub' = TRUE
    /\ op' = "undefined"
    /\ UNCHANGED <<MAP, DONE, WIDTH, HEIGHT, arg, ret, cellAcc, flagAcc,
                   scan, prevArea, nset, ninit>>
    /\ UNCHANGED walkVars

Next ==
    \/ \E w \in Widths, h \in Heights : Call_set(w, h)
    \/ \E stream \in [1 .. WIDTH * HEIGHT -> Tokens] : Call_init(stream)
    \/ Call_refresh
    \/ \E c \in Probes : Call_conn_area(c)
    \/ \E pat \in Chars : Call_next(pat)
    \/ \E pat \in Chars : Call_stat(pat)
    \/ Call_output
    \/ Call_undefined

Spec == Init /\ [][Next]_vars

----------------------------------------------------------------------------
(* A walk followed call by call: each invocation of walk is a frame of the *)
(* stack, at "enter" before its three guards and at "loop" inside          *)
(* for (auto g : this->neighbor()), i being the next neighbour to walk.    *)

\* Bound of the per-coordinate counters marked and acted.
MaxCount == 2

\* The predicates walk is called with, besides conn_area's own.
Conds == {condIs(s) : s \in Tokens} \cup {condAny}

\* A call of walk on c that has just been made; was will hold the visited
\* flags the call found on entry, once it has passed its guards.
frame(c) == [c |-> c, pc |-> "enter", nb |-> <<>>, i |-> 1, was |-> allFalse]

top == stack[Len(stack)]

pop == SubSeq(stack, 1, Len(stack) - 1)

count(f, c) == [f EXCEPT ![c] = IF @ < MaxCount THEN @ + 1 ELSE @]

\* The states a walk is started from: the program after set(w, h) and
\* init(stream), for every extent within the storage and every stream.
InitWalk ==
    /\ WIDTH \in 1 .. W
    /\ HEIGHT \in 1 .. H
    /\ \E stream \in [1 .. WIDTH * HEIGHT -> Tokens] :
          /\ MAP = [x \in 0 .. W - 1 |-> [y \in 0 .. H - 1 |->
                      IF x < WIDTH /\ y < HEIGHT THEN stream[y * WIDTH + x + 1]
                      ELSE NUL]]
    /\ arg = Sentinel
    /\ DONE = allFalse
    /\ ub = FALSE
    /\ op = "init"
    /\ ret = "void"
    /\ cellAcc = {scanAt(i) : i \in 1 .. WIDTH * HEIGHT}
    /\ flagAcc = {}
    /\ scan = NoScan
    /\ prevArea = NoArea
    /\ nset = 1
    /\ ninit = 1
    /\ stack = <<>>
    /\ wk = condAny
    /\ calls = 0
    /\ marked = noCount
    /\ acted = noCount
    /\ iter = NoIter

\* A client calls c.walk(cond, then), or c.conn_area(), which calls
\* c.walk(cond, then) with its own cond.
W_call(c, k) ==
    /\ stack = <<>>
    /\ stack' = <<frame(c)>>
    /\ wk' = k
    /\ calls' = 1
    /\ op' = "walk"
    /\ arg' = c
    /\ UNCHANGED <<MAP, DONE, WIDTH, HEIGHT, marked, acted>>
    /\ UNCHANGED callVars

\* walk's guards as if the test of done() were left out.
W_enter_NoDoneTest ==
    /\ stack # <<>>
    /\ top.pc = "enter"
    /\ arg' = top.c
    /\ IF ~valid(top.c)
       THEN /\ op' = "invalid"
            /\ stack' = pop
            /\ UNCHANGED <<DONE, marked>>
       ELSE IF ~cond(wk, top.c)
       THEN /\ op' = "refused"
            /\ stack' = pop
            /\ UNCHANGED <<DONE, marked>>
       ELSE /\ op' = "marked"
            /\ DONE' = [DONE EXCEPT ![doneIndex(top.c)] = TRUE]
            /\ marked' = count(marked, top.c)
            /\ stack' = [stack EXCEPT ![Len(stack)] =
                           [@ EXCEPT !.pc = "loop", !.nb = neighbor(top.c),
                                     !.was = DONE]]
    /\ UNCHANGED <<MAP, WIDTH, HEIGHT, wk, calls, acted>>
    /\ UNCHANGED callVars

\* walk's guards as if this->done() = true were left out.
W_enter_NoMark ==
    /\ stack # <<>>
    /\ top.pc = "enter"
    /\ arg' = top.c
    /\ IF ~valid(top.c)
       THEN /\ op' = "invalid"
            /\ stack' = pop
       ELSE IF done(top.c, DONE)
       THEN /\ op' = "visited"
            /\ stack' = pop
       ELSE IF ~cond(wk, top.c)
       THEN /\ op' = "refused"
            /\ stack' = pop
       ELSE /\ op' = "marked"
            /\ stack' = [stack EXCEPT ![Len(stack)] =
                           [@ EXCEPT !.pc = "loop", !.nb = neighbor(top.c),
                                     !.was = DONE]]
    /\ UNCHANGED <<MAP, DONE, WIDTH, HEIGHT, wk, calls, marked, acted>>
    /\ UNCHANGED callVars

\* walk's guards as if this->done() = true came before the test of cond.
W_enter_MarkFirst ==
    /\ stack # <<>>
    /\ top.pc = "enter"
    /\ arg' = top.c
    /\ IF ~valid(top.c)
       THEN /\ op' = "invalid"
            /\ stack' = pop
            /\ UNCHANGED <<DONE, marked>>
       ELSE IF done(top.c, DONE)
       THEN /\ op' = "visited"
            /\ stack' = pop
            /\ UNCHANGED <<DONE, marked>>
       ELSE IF ~cond(wk, top.c)
       THEN /\ op' = "refused"
            /\ DONE' = [DONE EXCEPT ![doneIndex(top.c)] = TRUE]
            /\ marked' = count(marked, top.c)
            /\ stack' = pop
       ELSE /\ op' = "marked"
            /\ DONE' = [DONE EXCEPT ![doneIndex(top.c)] = TRUE]
            /\ marked' = count(marked, top.c)
            /\ stack' = [stack EXCEPT ![Len(stack)] =
                           [@ EXCEPT !.pc = "loop", !.nb = neighbor(top.c),
                                     !.was = DONE]]
    /\ UNCHANGED <<MAP, WIDTH, HEIGHT, wk, calls, acted>>
    /\ UNCHANGED callVars

\* The innermost call runs walk's three guards and, having passed them,
\* this->done() = true and the evaluation of this->neighbor().
W_enter ==
    /\ stack # <<>>
    /\ top.pc = "enter"
    /\ arg' = top.c
    /\ IF ~valid(top.c)
       THEN /\ op' = "invalid"
            /\ stack' = pop
            /\ UNCHANGED <<DONE, marked>>
       ELSE IF done(top.c, DONE)
       THEN /\ op' = "visited"
            /\ stack' = pop
            /\ UNCHANGED <<DONE, marked>>
       ELSE IF ~cond(wk, top.c)
       THEN /\ op' = "refused"
            /\ stack' = pop
            /\ UNCHANGED <<DONE, marked>>
       ELSE /\ op' = "marked"
            /\ DONE' = [DONE EXCEPT ![doneIndex(top.c)] = TRUE]
            /\ marked' = count(marked, top.c)
            /\ stack' = [stack EXCEPT ![Len(stack)] =
                           [@ EXCEPT !.pc = "loop", !.nb = neighbor(top.c),
                                     !.was = DONE]]
    /\ UNCHANGED <<MAP, WIDTH, HEIGHT, wk, calls, acted>>
    /\ UNCHANGED callVars

\* g.walk(cond, then) for the next neighbour g of the innermost call.
W_recurse ==
    /\ stack # <<>>
    /\ top.pc = "loop"
    /\ top.i <= Len(top.nb)
    /\ stack' = Append([stack EXCEPT ![Len(stack)].i = @ + 1],
                       frame(top.nb[top.i]))
    /\ calls' = calls + 1
    /\ op' = "recurse"
    /\ arg' = top.nb[top.i]
    /\ UNCHANGED <<MAP, DONE, WIDTH, HEIGHT, wk, marked, acted>>
    /\ UNCHANGED callVars

\* then(*this), after the loop; the innermost call returns.
W_then ==
    /\ stack # <<>>
    /\ top.pc = "loop"
    /\ top.i > Len(top.nb)
    /\ acted' = count(acted, top.c)
    /\ stack' = pop
    /\ op' = "then"
    /\ arg' = top.c
    /\ UNCHANGED <<MAP, DONE, WIDTH, HEIGHT, wk, calls, marked>>
    /\ UNCHANGED callVars

\* A client calls refresh() between two walks.
W_refresh ==
    /\ stack = <<>>
    /\ DONE' = [i \in DOMAIN DONE |-> FALSE]
    /\ marked' = noCount
    /\ acted' = noCount
    /\ op' = "refresh"
    /\ arg' = Sentinel
    /\ UNCHANGED <<MAP, WIDTH, HEIGHT, stack, wk, calls>>
    /\ UNCHANGED callVars

\* One step of the walk in progress.
WalkStep == W_enter \/ W_recurse \/ W_then

NextWalk ==
    \/ \E c \in ValidCells \cup {Sentinel} :
          \E k \in Conds \cup {condSame(c)} : W_call(c, k)
    \/ W_enter
    \/ W_recurse
    \/ W_then
    \/ W_refresh

\* The thread that called walk keeps running it: a step of the walk that
\* can be taken is taken.
SpecWalk == InitWalk /\ [][NextWalk]_vars /\ WF_vars(WalkStep)

----------------------------------------------------------------------------
(* valid() and neighbor() asked of single coordinates, under the extent    *)
(* the program starts with and under every extent set() is called with.    *)

\* The values x and y are drawn from: the storage and just beyond it, both
\* ends of uintptr_t's range, and the values around 2 ^ (PtrBits - 1).
Axis ==
    (0 .. W + 1)
        \cup {UINTPTR_MOD - 2, UINTPTR_MOD - 1}
        \cup {UINTPTR_MOD \div 2 - 1, UINTPTR_MOD \div 2}

\* The coordinates asked about; Sentinel and every dx(Grid(0, y), -1) and
\* dy(Grid(x, 0), -1) are among them.
Coords == {Grid(x, y) : x \in Axis, y \in Axis}

\* c.valid() called by a client
Q_valid(c) ==
    /\ op' = "valid"
    /\ arg' = c
    /\ ret' = valid(c)
    /\ UNCHANGED <<MAP, DONE, WIDTH, HEIGHT, ub, cellAcc, flagAcc, scan,
                   prevArea, nset, ninit>>
    /\ UNCHANGED walkVars

\* c.neighbor() called by a client
Q_neighbor(c) ==
    /\ op' = "neighbor"
    /\ arg' = c
    /\ ret' = neighbor(c)
    /\ UNCHANGED <<MAP, DONE, WIDTH, HEIGHT, ub, cellAcc, flagAcc, scan,
                   prevArea, nset, ninit>>
    /\ UNCHANGED walkVars

NextCoord ==
    \/ \E w \in Widths, h \in Heights : Call_set(w, h)
    \/ \E c \in Coords : Q_valid(c)
    \/ \E c \in Coords : Q_neighbor(c)

SpecCoord == Init /\ [][NextCoord]_vars

----------------------------------------------------------------------------
(* Range, Permut, fact and printed. int32_t (32 bits in the source) is     *)
(* scaled down to IntBits bits, two's complement.                          *)

\* Width of int32_t, the default T of Range and the type of fact.
IntBits == 4

INT_MIN == 0 - 2 ^ (IntBits - 1)
INT_MAX == 2 ^ (IntBits - 1) - 1
Ints == INT_MIN .. INT_MAX

\* for (auto i : Range(left, right)): begin() and end() are taken; ret
\* collects the values of i the body is run with.
Range_for(left, right) ==
    /\ ~ub
    /\ iter.kind = "none"
    /\ iter' = [NoIter EXCEPT !.kind = "range", !.curr = left, !.right = right]
    /\ op' = "Range"
    /\ arg' = <<left, right>>
    /\ ret' = <<>>
    /\ UNCHANGED ub
    /\ UNCHANGED gridVars

\* One turn of the loop: begin != end (this->curr != other.curr) holds, the
\* body runs with *it, then ++it. ++this->curr at the largest value of T
\* overflows, which is undefined behaviour for the signed T.
Range_body ==
    /\ ~ub
    /\ iter.kind = "range"
    /\ iter.curr # iter.right
    /\ ret' = Append(ret, iter.curr)
    /\ op' = "Range_body"
    /\ IF iter.curr = INT_MAX
       THEN ub' = TRUE /\ UNCHANGED iter
       ELSE iter' = [iter EXCEPT !.curr = @ + 1] /\ UNCHANGED ub
    /\ UNCHANGED arg
    /\ UNCHANGED gridVars

\* begin != end is false: the loop is left.
Range_end ==
    /\ ~ub
    /\ iter.kind = "range"
    /\ iter.curr = iter.right
    /\ iter' = NoIter
    /\ op' = "Range_end"
    /\ UNCHANGED <<arg, ret, ub>>
    /\ UNCHANGED gridVars

\* Bound of the number of elements of the vector a Permut is made of.
MaxEl == 4

\* The values the elements are drawn from.
Elems == {1, 4, 5}

\* The vectors a Permut is made of: none to MaxEl elements, repeats allowed.
Vectors == UNION {[1 .. n -> Elems] : n \in 0 .. MaxEl}

Reverse(s) == [i \in 1 .. Len(s) |-> s[Len(s) + 1 - i]]

Largest(S) == CHOOSE m \in S : \A k \in S : k <= m

\* std::next_permutation(first, last): the sequence it leaves and the value
\* it returns. With i the last position whose element is below its
\* successor and j the last position holding more than s[i], it swaps the
\* two and reverses what follows i; with no such i it reverses all of s and
\* returns false.
next_permutation(s) ==
    LET n == Len(s)
        I == {i \in 1 .. n - 1 : s[i] < s[i + 1]}
    IN  IF I = {} THEN [seq |-> Reverse(s), more |-> FALSE]
        ELSE LET i == Largest(I)
                 j == Largest({k \in i + 1 .. n : s[k] > s[i]})
                 t == [s EXCEPT ![i] = s[j], ![j] = s[i]]
             IN  [seq |-> SubSeq(t, 1, i) \o Reverse(SubSeq(t, i + 1, n)),
                  more |-> TRUE]

\* this->buf[i] = this->el[curr[i]], for every i (curr holds 0-based indices)
bufOf(el, curr) == [i \in 1 .. Len(el) |-> el[curr[i] + 1]]

RECURSIVE fact(_)
\* constexpr int32_t fact(int32_t n): the value, and whether a product left
\* the range of int32_t on the way
fact(n) ==
    IF n = 0 THEN [val |-> 1, overflow |-> FALSE]
    ELSE LET r == fact(n - 1)
             p == n * r.val
         IN  [val |-> p, overflow |-> r.overflow \/ p > INT_MAX]

\* for (auto p : Permut(el)): begin() builds the iterator with curr the
\* identity, buf = el and next = true; ret collects, for each run of the
\* body, curr and the vector p the body is run with.
Permut_for(el) ==
    /\ ~ub
    /\ iter.kind = "none"
    /\ iter' = [NoIter EXCEPT !.kind = "permut",
                              !.idx = [i \in 1 .. Len(el) |-> i - 1],
                              !.buf = bufOf(el, [i \in 1 .. Len(el) |-> i - 1]),
                              !.next = TRUE]
    /\ op' = "Permut"
    /\ arg' = el
    /\ ret' = <<>>
    /\ UNCHANGED ub
    /\ UNCHANGED gridVars

\* One turn of the loop: operator!= returns this->next, which is true; the
\* body runs with *it (buf); ++it steps curr with std::next_permutation,
\* keeps what it returned in next and fills buf again.
Permut_body ==
    /\ ~ub
    /\ iter.kind = "permut"
    /\ iter.next
    /\ ret' = Append(ret, [at |-> iter.idx, p |-> iter.buf])
    /\ LET r == next_permutation(iter.idx) IN
          iter' = [iter EXCEPT !.idx = r.seq, !.next = r.more,
                               !.buf = bufOf(arg, r.seq)]
    /\ op' = "Permut_body"
    /\ UNCHANGED <<arg, ub>>
    /\ UNCHANGED gridVars

\* operator!= returns false: the loop is left.
Permut_end ==
    /\ ~ub
    /\ iter.kind = "permut"
    /\ ~iter.next
    /\ iter' = NoIter
    /\ op' = "Permut_end"
    /\ UNCHANGED <<arg, ret, ub>>
    /\ UNCHANGED gridVars

\* Permut(el).cnt(): fact(el.size()). A product beyond int32_t is a signed
\* overflow, undefined behaviour: the call may return any int32_t.
Permut_cnt(el) ==
    /\ ~ub
    /\ iter.kind = "none"
    /\ op' = "cnt"
    /\ arg' = el
    /\ LET r == fact(Len(el)) IN
          IF r.overflow
          THEN ub' = TRUE /\ ret' \in Ints
          ELSE ret' = r.val /\ UNCHANGED ub
    /\ UNCHANGED iter
    /\ UNCHANGED gridVars

\* Bound of the magnitude of the values printed() is called with.
MaxValue == 120

\* '0' + d, for a digit d
digit(d) == <<"0", "1", "2", "3", "4", "5", "6", "7", "8", "9">>[d + 1]

RECURSIVE printedLoop(_, _)
\* for (; value > 0; value /= 10) buf.push_front('0' + value % 10);
\* the value and the buffer the loop ends with
printedLoop(value, buf) ==
    IF value > 0
    THEN printedLoop(value \div 10, <<digit(value % 10)>> \o buf)
    ELSE [value |-> value, buf |-> buf]

\* std::string printed(int128_t value)
printed(value) ==
    LET r == IF value = 0 THEN [value |-> value, buf |-> <<"0">>]
             ELSE printedLoop(value, <<>>)
    IN  IF r.value < 0 THEN <<"-">> \o r.buf ELSE r.buf

\* printed(value) called by a client
Call_printed(value) ==
    /\ ~ub
    /\ iter.kind = "none"
    /\ op' = "printed"
    /\ arg' = value
    /\ ret' = printed(value)
    /\ UNCHANGED <<ub, iter>>
    /\ UNCHANGED gridVars

NextLib ==
    \/ \E left \in Ints, right \in Ints : Range_for(left, right)
    \/ Range_body
    \/ Range_end
    \/ \E el \in Vectors : Permut_for(el)
    \/ Permut_body
    \/ Permut_end
    \/ \E el \in Vectors : Permut_cnt(el)
    \/ \E value \in 0 - MaxValue .. MaxValue : Call_printed(value)

SpecLib == Init /\ [][NextLib]_vars

----------------------------------------------------------------------------
(* The claims.                                                             *)

\* C1: conn_area called on a valid start right after refresh() returns the
\* number of cells of start's 4-connected same-character component.
C1_AreaIsComponentSize ==
    [][(op = "refresh" /\ op' = "conn_area" /\ valid(arg'))
          => ret' = Cardinality(Component(arg'))]_vars

\* C1 witness: on AAB / ABB, right after refresh(), conn_area of (0,0) gave 3.
C1_Witness ==
    /\ IsExampleMap
    /\ op = "conn_area" /\ arg = Grid(0, 0) /\ ret = 3
    /\ prevArea.phase = "first" /\ prevArea.fresh

\* C3: once a conn_area call has walked a whole component (it returned the
\* component's size), a conn_area call that follows it, with no refresh() in
\* between, on any coordinate of that component returns 0.
C3_SecondAreaIsZero ==
    [][(/\ op = "conn_area" /\ valid(arg)
        /\ ret = Cardinality(Component(arg))
        /\ op' = "conn_area" /\ arg' \in Component(arg))
          => ret' = 0]_vars

\* C3 witness: on AAB / ABB, conn_area of (0,0) gave 3 right after refresh(),
\* and the conn_area of (0,1) that followed gave 0.
C3_Witness ==
    /\ IsExampleMap
    /\ op = "conn_area" /\ arg = Grid(0, 1) /\ ret = 0
    /\ \A c \in Component(Grid(0, 0)) : done(c, DONE)
    /\ \A c \in ValidCells \ Component(Grid(0, 0)) : ~done(c, DONE)

\* C4: after refresh(), next(s) then conn_area on what it returned, repeated
\* until next(s) returns an invalid coordinate: the areas returned add up to
\* stat(s).
C4_AreasSumToStat ==
    scan.phase = "end" => scan.sum = stat(scan.sym).ret

\* C4 witness: such an enumeration ended after finding two components of
\* sizes adding up to 3.
C4_Witness ==
    /\ scan.phase = "end" /\ scan.n = 2 /\ scan.sum = 3
    /\ op = "next" /\ ~valid(ret)

\* C6: next(pat) returns the first cell, in the order rows y = 0.., x = 0..
\* within a row, that holds pat and is not visited; with no such cell it
\* returns the sentinel, which is invalid under every configured extent.
C6_NextIsFirstUnvisited ==
    /\ ~valid(Sentinel)
    /\ op = "next" =>
          LET found == {c \in ValidCells : tile(c) = arg /\ ~done(c, DONE)} IN
          IF found = {} THEN ret = Sentinel
          ELSE ret \in found /\ \A c \in found \ {ret} : Before(ret, c)

\* C6 witness: next returned a cell of a row below the first one, having
\* passed over a visited cell holding pat and an unvisited cell not holding it.
C6_Witness ==
    /\ op = "next" /\ valid(ret) /\ ret.y > 0
    /\ \E c \in ValidCells : Before(c, ret) /\ tile(c) = arg /\ done(c, DONE)
    /\ \E c \in ValidCells : Before(c, ret) /\ tile(c) # arg /\ ~done(c, DONE)

\* C6 witness: next found no cell and returned the sentinel, although the map
\* holds pat (every such cell is visited).
C6_WitnessNone ==
    /\ op = "next" /\ ret = Sentinel
    /\ \E c \in ValidCells : tile(c) = arg

\* C7: refresh() sets the visited flag of every coordinate to false and
\* leaves the cells, the width and the height as they were.
C7_RefreshClearsOnlyFlags ==
    [][op' = "refresh"
          => /\ \A i \in DOMAIN DONE' : ~DONE'[i]
             /\ InStorage => \A c \in ValidCells : ~done(c, DONE')
             /\ MAP' = MAP /\ WIDTH' = WIDTH /\ HEIGHT' = HEIGHT]_vars

\* C7 witness: a refresh() that followed a conn_area which had marked cells
\* of a loaded map, after which no flag is set.
C7_Witness ==
    /\ op = "refresh" /\ DONE = allFalse
    /\ prevArea.phase = "refreshed" /\ prevArea.ret > 1
    /\ \E c \in ValidCells : tile(c) \in Tokens

\* C8: conn_area on an invalid coordinate returns 0, reads no cell and
\* leaves every visited flag as it was.
C8_InvalidAreaIsNoOp ==
    [][(op' = "conn_area" /\ ~valid(arg'))
          => ret' = 0 /\ cellAcc' = {} /\ DONE' = DONE]_vars

\* C8 witness: conn_area was called on the sentinel while some flags were
\* set, and returned 0.
C8_Witness ==
    /\ op = "conn_area" /\ arg = Sentinel /\ ret = 0 /\ cellAcc = {}
    /\ DONE # allFalse

\* C8 witness: conn_area was called on a coordinate of the storage that the
\* configured extent leaves out.
C8_WitnessShrunk ==
    /\ op = "conn_area" /\ arg \in Storage /\ ~valid(arg) /\ ret = 0

\* Two valid coordinates hold the same character and a chain of 4-adjacent
\* cells holding it links them.
Linked(a, b) == valid(a) /\ valid(b) /\ b \in Component(a)

\* C9 as stated: for linked a and b, conn_area(a), refresh(), conn_area(b)
\* return the same count.
C9_AsStated ==
    (prevArea.phase = "second" /\ Linked(prevArea.arg, arg))
        => ret = prevArea.ret

\* C9 amended: for linked a and b, conn_area(a) called while no cell of
\* their component is visited, then refresh(), then conn_area(b) return the
\* same count.
C9_SameCountWhenUntouched ==
    (prevArea.phase = "second" /\ prevArea.untouched
        /\ Linked(prevArea.arg, arg))
        => ret = prevArea.ret

\* C9 witness: conn_area(a) on an untouched component of a loaded map,
\* refresh(), conn_area(b) for two distinct linked cells, both returning 3.
C9_Witness ==
    /\ prevArea.phase = "second" /\ prevArea.untouched
    /\ valid(arg) /\ tile(arg) \in Tokens
    /\ Linked(prevArea.arg, arg) /\ prevArea.arg # arg
    /\ op = "conn_area" /\ ret = 3 /\ prevArea.ret = 3

\* C10: stat(pat) returns the number of cells of the configured extent that
\* hold pat, whatever the visited flags are, and changes neither the cells
\* nor the flags.
C10_StatCountsCells ==
    [][op' = "stat"
          => /\ ret' = Cardinality({c \in ValidCells : tile(c) = arg'})
             /\ MAP' = MAP /\ DONE' = DONE]_vars

\* C10 witness: stat counted 3 cells holding pat while some of them were
\* visited and others holding it were not.
C10_Witness ==
    /\ op = "stat" /\ ret = 3
    /\ \E c \in ValidCells : tile(c) = arg /\ done(c, DONE)
    /\ \E c \in ValidCells : tile(c) = arg /\ ~done(c, DONE)

\* C2: between two refresh() calls, over any sequence of walk / conn_area
\* calls, every coordinate is marked visited at most once and `then` is
\* invoked on it at most once.
C2_AtMostOncePerEpoch ==
    \A c \in Storage : marked[c] <= 1 /\ acted[c] <= 1

\* C2 witness: a walk called on a coordinate that an earlier walk of the
\* same epoch had marked and acted on returned at once, the counts still 1.
C2_Witness ==
    /\ op = "visited" /\ stack = <<>> /\ calls = 1
    /\ marked[arg] = 1 /\ acted[arg] = 1
    /\ \E c \in ValidCells : marked[c] = 0

RECURSIVE stackWeight(_)
\* The steps the frames of s still have to take by themselves: one to leave
\* "enter" or to run `then`, two for each neighbour not yet walked.
stackWeight(s) ==
    IF s = <<>> THEN 0
    ELSE LET f == s[Len(s)] IN
         (IF f.pc = "enter" THEN 1 ELSE 1 + 2 * (Len(f.nb) - f.i + 1))
            + stackWeight(SubSeq(s, 1, Len(s) - 1))

\* A bound on the steps left to the walk in progress: every unvisited cell
\* can still be entered once, which adds a frame with up to four neighbours.
Measure ==
    9 * Cardinality({c \in ValidCells : ~done(c, DONE)}) + stackWeight(stack)

\* C5: every call of walk terminates, whatever the start, the cells and the
\* visited flags are: each step of a walk in progress lowers Measure, which
\* is never negative, and a walk in progress always comes to its return.
C5_WalkTerminates ==
    /\ [][stack # <<>> => Measure' < Measure]_vars
    /\ (stack # <<>>) ~> (stack = <<>>)

\* C5 witness: a walk with an always-true cond over all six cells of a
\* 3 x 2 map, whose adjacency has cycles, has returned.
C5_Witness ==
    /\ WIDTH = 3 /\ HEIGHT = 2
    /\ stack = <<>> /\ op = "then" /\ wk = condAny /\ calls > 6
    /\ \A c \in ValidCells : done(c, DONE)
    /\ \E c \in ValidCells : tile(c) = "A"
    /\ \E c \in ValidCells : tile(c) = "B"

\* The integer a uintptr_t value stands for when read as intptr_t: x - 1
\* computed at x = 0 stands for -1.
asSigned(v) == IF v < UINTPTR_MOD \div 2 THEN v ELSE v - UINTPTR_MOD

\* The integer point (x, y) lies in the configured extent.
InExtent(p) == 0 <= p.x /\ p.x < WIDTH /\ 0 <= p.y /\ p.y < HEIGHT

\* C11: neighbor() of c = (x, y) is the list (x,y+1), (x+1,y), (x-1,y),
\* (x,y-1), computed over the integers, with the points outside the
\* configured extent dropped and the order kept; a step of -1 from x = 0 or
\* from y = 0 gives a coordinate that is invalid and is not in the list.
C11_NeighborsInOrder ==
    op = "neighbor" =>
        LET x == asSigned(arg.x)
            y == asSigned(arg.y)
        IN  /\ ret = SelectSeq(<<Grid(x, y + 1), Grid(x + 1, y),
                                 Grid(x - 1, y), Grid(x, y - 1)>>, InExtent)
            /\ arg.x = 0 => /\ ~valid(dx(arg, 0 - 1))
                            /\ \A i \in 1 .. Len(ret) : ret[i] # dx(arg, 0 - 1)
            /\ arg.y = 0 => /\ ~valid(dy(arg, 0 - 1))
                            /\ \A i \in 1 .. Len(ret) : ret[i] # dy(arg, 0 - 1)

\* C11 witness: neighbor() of an inner cell of the 4 x 3 extent gave all four
\* neighbours: down, right, left, up.
C11_Witness ==
    /\ op = "neighbor" /\ arg = Grid(1, 1) /\ WIDTH = W + 1 /\ HEIGHT = H + 1
    /\ ret = <<Grid(1, 2), Grid(2, 1), Grid(0, 1), Grid(1, 0)>>

\* C11 witness: neighbor() of the corner (0,0) gave only down and right, the
\* steps of -1 having wrapped to the top of uintptr_t's range.
C11_WitnessCorner ==
    /\ op = "neighbor" /\ arg = Grid(0, 0) /\ WIDTH > 1 /\ HEIGHT > 1
    /\ ret = <<Grid(0, 1), Grid(1, 0)>>
    /\ dx(arg, 0 - 1).x = UINTPTR_MOD - 1

\* C12: c.valid() is true exactly when the integer point c stands for has
\* 0 <= x < WIDTH and 0 <= y < HEIGHT under the configured extent; this
\* covers the sentinel and the coordinates a step of -1 from 0 gives.
C12_ValidIffInExtent ==
    /\ op = "valid" =>
          (ret <=> InExtent(Grid(asSigned(arg.x), asSigned(arg.y))))
    /\ ~valid(Sentinel)
    /\ \A c \in Storage : ~valid(dx(Grid(0, c.y), 0 - 1))
                          /\ ~valid(dy(Grid(c.x, 0), 0 - 1))

\* C12 witness: valid() answered true for the last cell of a 2 x 2 extent.
C12_Witness ==
    /\ op = "valid" /\ WIDTH = 2 /\ HEIGHT = 2 /\ arg = Grid(1, 1) /\ ret = TRUE

\* C12 witness: valid() answered false for (0,0) stepped by -1 in y, and for
\* a coordinate of the storage that the configured extent leaves out.
C12_WitnessWrapped ==
    /\ op = "valid" /\ ret = FALSE
    /\ arg = dy(Grid(0, 0), 0 - 1) \/ (arg \in Storage /\ arg.x = WIDTH)

\* C13: a set(width, height) with width or height larger than the storage
\* MAP[W][H] does not return normally with that extent configured: it
\* reports an error or aborts.
C13_OversizeSetSurfaced ==
    (op = "set" /\ (arg[1] > W \/ arg[2] > H))
        => (ret # "void" /\ WIDTH <= W /\ HEIGHT <= H)

\* The text that holds the tokens of stream as HEIGHT lines of WIDTH
\* characters, each line ended by a newline.
Lines(stream) ==
    [j \in 1 .. HEIGHT * (WIDTH + 1) |->
        IF j % (WIDTH + 1) = 0 THEN "\n"
        ELSE stream[((j - 1) \div (WIDTH + 1)) * WIDTH
                      + ((j - 1) % (WIDTH + 1)) + 1]]

\* C14: init() of a stream of WIDTH * HEIGHT one-character tokens followed
\* at once by output() writes HEIGHT lines of WIDTH characters, the tokens
\* in the order of the stream.
C14_OutputReproducesInit ==
    [][(op = "init" /\ op' = "output") => ret' = Lines(arg)]_vars

\* C14 witness: output() right after init() of A A B A B B on the 3 x 2
\* extent wrote AAB / ABB.
C14_Witness ==
    /\ op = "output" /\ arg = <<"A", "A", "B", "A", "B", "B">>
    /\ WIDTH = 3 /\ HEIGHT = 2
    /\ ret = <<"A", "A", "B", "\n", "A", "B", "B", "\n">>

\* The integers i with a <= i < b, in ascending order.
Interval(a, b) == [i \in 1 .. (IF b > a THEN b - a ELSE 0) |-> a + i - 1]

\* s is an initial part of t.
IsPrefix(s, t) == Len(s) <= Len(t) /\ \A i \in 1 .. Len(s) : s[i] = t[i]

\* C15: a loop over Range(a, b) runs its body with the integers a <= i < b
\* in ascending order and with nothing else, and then stops; with a >= b the
\* body is not run.
C15_RangeYieldsInterval ==
    /\ op \in {"Range", "Range_body", "Range_end"}
          => IsPrefix(ret, Interval(arg[1], arg[2]))
    /\ op = "Range_end" => ret = Interval(arg[1], arg[2])

\* Range(a, b) with a <= b does as C15 says.
RangeYieldsIntervalWhenOrdered ==
    (op \in {"Range", "Range_body", "Range_end"} /\ arg[1] <= arg[2])
        => /\ IsPrefix(ret, Interval(arg[1], arg[2]))
           /\ ~ub
           /\ op = "Range_end" => ret = Interval(arg[1], arg[2])

RECURSIVE Factorial(_)
\* n! over the integers.
Factorial(n) == IF n = 0 THEN 1 ELSE n * Factorial(n - 1)

\* s comes before t in lexicographic order (s and t of the same length).
LexLess(s, t) ==
    \E i \in 1 .. Len(s) :
        /\ s[i] < t[i]
        /\ \A k \in 1 .. i - 1 : s[k] = t[k]

\* What a finished loop over Permut(el) has run its body with: n! vectors,
\* each the elements of el taken at an arrangement of the positions
\* 0 .. n - 1, the arrangements in ascending lexicographic order (hence each
\* one once) and the first one el in its given order.
PermutYieldsAll(el, out) ==
    LET n == Len(el) IN
    /\ Len(out) = Factorial(n)
    /\ out[1].p = el
    /\ \A k \in 1 .. Len(out) :
          /\ Len(out[k].at) = n
          /\ {out[k].at[i] : i \in 1 .. n} = 0 .. n - 1
          /\ out[k].p = [i \in 1 .. n |-> el[out[k].at[i] + 1]]
    /\ \A k \in 1 .. Len(out) - 1 : LexLess(out[k].at, out[k + 1].at)

\* C16: a loop over Permut(el) yields n! = cnt() vectors and then stops:
\* each arrangement of the n positions once, el in its given order first,
\* in lexicographic order of positions; an empty el yields one empty vector.
C16_PermutYieldsFactorial ==
    /\ op = "Permut_end" => PermutYieldsAll(arg, ret)
    /\ op = "cnt" => ret = Factorial(Len(arg))

\* The loop over Permut(el) alone does as C16 says.
PermutLoopYieldsAll ==
    /\ op = "Permut_end" => PermutYieldsAll(arg, ret)
    /\ (op = "Permut_end" /\ arg = <<5, 1, 4>>)
          => [k \in 1 .. 6 |-> ret[k].p]
                = << <<5, 1, 4>>, <<5, 4, 1>>, <<1, 5, 4>>,
                     <<1, 4, 5>>, <<4, 5, 1>>, <<4, 1, 5>> >>
    /\ (op = "Permut_end" /\ arg = <<>>) => ret = <<[at |-> <<>>, p |-> <<>>]>>
    /\ op \in {"Permut", "Permut_body"} => Len(ret) <= Factorial(Len(arg))

RECURSIVE Digits(_)
\* The decimal digits of the natural number n, most significant first.
Digits(n) ==
    LET d == <<"0", "1", "2", "3", "4", "5", "6", "7", "8", "9">>[(n % 10) + 1] IN
    IF n < 10 THEN <<d>> ELSE Append(Digits(n \div 10), d)

\* The decimal representation of the integer v.
Decimal(v) == IF v < 0 THEN <<"-">> \o Digits(0 - v) ELSE Digits(v)

\* C17: printed(value) is the decimal representation of value: "0" for
\* zero, the digits most significant first for a positive value, and '-'
\* followed by the digits of |value| for a negative one.
C17_PrintedIsDecimal ==
    op = "printed" => ret = Decimal(arg)

\* printed(value) of a value that is not negative does as C17 says.
PrintedIsDecimalFromZero ==
    (op = "printed" /\ arg >= 0) => ret = Decimal(arg)

RECURSIVE Reach(_, _, _)
\* The least set holding S and closed under stepping to a 4-adjacent valid
\* cell that satisfies the cond k and is not visited in the overlay d.
Reach(S, k, d) ==
    LET T == S \cup {c \in ValidCells :
                       cond(k, c) /\ ~done(c, d) /\ \E e \in S : Adjacent(c, e)}
    IN  IF T = S THEN S ELSE Reach(T, k, d)

\* The innermost call of walk has finished its loop: then(*this) is next.
AtThen == stack # <<>> /\ top.pc = "loop" /\ top.i > Len(top.nb)

\* C18 as stated: when then(c) is invoked, every cell that a chain of
\* adjacent valid cells satisfying cond links to c is marked visited.
C18_AsStated ==
    AtThen => \A d \in Reach({top.c}, wk, allFalse) : done(d, DONE)

\* C18 amended: when then(c) is invoked, every cell that a chain of adjacent
\* valid cells links to c, each satisfying cond and not visited when walk
\* was called on c, is marked visited.
C18_ThenAfterUnvisitedRegion ==
    AtThen => \A d \in Reach({top.c}, wk, top.was) : done(d, DONE)

\* C18 witness: then is about to run on the start of a walk that found
\* visited cells on entry and has marked at least two further cells, while
\* a cell satisfying cond beyond a visited one is still unvisited.
C18_Witness ==
    /\ AtThen /\ Len(stack) = 1
    /\ top.was # allFalse
    /\ Cardinality(Reach({top.c}, wk, top.was)) >= 3
    /\ \E d \in Reach({top.c}, wk, allFalse) : ~done(d, DONE)

\* C19: a call of walk on a valid, unvisited coordinate for which cond is
\* false returns at once: the coordinate stays unvisited, no flag changes,
\* then is not invoked and no further call of walk is made; and a call of
\* walk on a valid, unvisited coordinate that satisfies cond marks it,
\* whatever earlier walks refused.
C19_RefusedStaysUnvisited ==
    /\ [][op' = "refused"
            => /\ valid(arg') /\ ~done(arg', DONE) /\ ~cond(wk, arg')
               /\ DONE' = DONE /\ ~done(arg', DONE')
               /\ marked' = marked /\ acted' = acted
               /\ calls' = calls
               /\ stack' = pop]_vars
    /\ [][(/\ stack # <<>> /\ top.pc = "enter" /\ valid(top.c)
           /\ ~done(top.c, DONE) /\ cond(wk, top.c))
            => (op' = "marked" /\ arg' = top.c /\ done(top.c, DONE'))]_vars

\* C19 witness: a walk that has acted on a cell d holding A had called walk
\* on d's neighbour c holding B, which was unvisited and is marked only now,
\* as the start of a later walk of the same epoch with the cond 'is B'.
C19_Witness ==
    /\ op = "marked" /\ Len(stack) = 1 /\ calls = 1 /\ arg = top.c
    /\ wk = condIs("B") /\ tile(arg) = "B" /\ marked[arg] = 1
    /\ \E d \in ValidCells :
          Adjacent(d, arg) /\ tile(d) = "A" /\ done(d, DONE) /\ acted[d] = 1

\* C20 as stated: the invocations of walk one top-level call causes, those
\* that return at a guard included, number at most WIDTH * HEIGHT.
C20_AsStated ==
    calls <= WIDTH * HEIGHT

\* C20 amended: one top-level walk makes at most 1 + 4 * WIDTH * HEIGHT
\* invocations of walk: the top-level one, and one per valid neighbour of
\* each cell it marks, of which there are at most WIDTH * HEIGHT.
C20_CallsWithinFourPerCell ==
    calls <= 1 + 4 * WIDTH * HEIGHT

\* C20 witness: a walk over all six cells of the 3 x 2 extent has returned
\* after 15 invocations: the top-level one and one per valid neighbour of
\* each of the six cells.
C20_Witness ==
    /\ WIDTH = 3 /\ HEIGHT = 2
    /\ stack = <<>> /\ op = "then" /\ calls = 15
    /\ \A c \in ValidCells : done(c, DONE) /\ marked[c] = 1

\* The steps of an epoch C21 speaks of: the calls init, conn_area, next and
\* stat, and the steps of a walk followed call by call.
EpochSteps ==
    {"init", "conn_area", "next", "stat",
     "walk", "invalid", "visited", "refused", "marked", "recurse", "then"}

\* C21: between two refresh() calls the visited coordinates only grow: no
\* step of walk, conn_area, next, stat or init turns a visited flag from
\* true to false.
C21_VisitedOnlyGrows ==
    [][op' \in EpochSteps
          => /\ \A i \in DOMAIN DONE : DONE[i] => DONE'[i]
             /\ WIDTH' = WIDTH /\ HEIGHT' = HEIGHT
             /\ \A c \in ValidCells : done(c, DONE) => done(c, DONE')]_vars

\* C21 witness: a conn_area call has marked cells of a loaded map while the
\* cells an earlier call of the epoch had marked are still visited.
C21_Witness ==
    /\ op = "conn_area" /\ valid(arg) /\ ret >= 2
    /\ \E c \in ValidCells : tile(c) \in Tokens
    /\ Cardinality({c \in ValidCells : done(c, DONE)}) > ret
    /\ \E c \in ValidCells : ~done(c, DONE)

\* C22: init() leaves the visited flags as they are: every flag is the same
\* before and after a load, so the marks of walks on the old content stay
\* over the new content until refresh().
C22_InitKeepsFlags ==
    [][op' = "init"
          => /\ DONE' = DONE
             /\ \A c \in ValidCells : done(c, DONE') <=> done(c, DONE)]_vars

\* C22 witness: right after an init() that followed a walk over the old
\* content, cells holding A and cells holding B of the new content are
\* marked visited.
C22_Witness ==
    /\ op = "init" /\ InStorage
    /\ \E c \in ValidCells : tile(c) = "A" /\ done(c, DONE)
    /\ \E c \in ValidCells : tile(c) = "B" /\ done(c, DONE)

\* C23: with the extent within the storage, conn_area (hence walk), next
\* and stat, called on any coordinate, read or write a cell or a visited
\* flag only at coordinates of the configured extent, and index DONE only
\* below WIDTH * HEIGHT.
C23_AccessesWithinExtent ==
    (InStorage /\ op \in {"conn_area", "next", "stat"})
        => /\ cellAcc \subseteq ValidCells
           /\ flagAcc \subseteq ValidCells
           /\ \A c \in flagAcc : doneIndex(c) < WIDTH * HEIGHT

\* C23 witness: conn_area was called on (0,0) stepped by -1 in x and touched
\* nothing, under an extent smaller than the storage.
C23_Witness ==
    /\ op = "conn_area" /\ arg = dx(Grid(0, 0), 0 - 1)
    /\ WIDTH < W /\ cellAcc = {} /\ flagAcc = {}

\* C23 witness: conn_area on the last cell of an extent smaller than the
\* storage walked every cell of the extent and none beyond it.
C23_WitnessEdge ==
    /\ op = "conn_area" /\ WIDTH < W /\ HEIGHT = H
    /\ arg = Grid(WIDTH - 1, HEIGHT - 1)
    /\ flagAcc = ValidCells /\ cellAcc = ValidCells /\ ret = WIDTH * HEIGHT
    /\ WIDTH > 1

\* C24: after refresh() and then conn_area(start) on a valid start, the
\* coordinates marked visited are exactly the cells of start's connected
\* same-character component, and no flag beyond theirs is set.
C24_VisitedIsComponent ==
    [][(op = "refresh" /\ op' = "conn_area" /\ valid(arg'))
          => /\ {c \in ValidCells : done(c, DONE')} = Component(arg')
             /\ \A i \in DOMAIN DONE' :
                   DONE'[i] <=> \E c \in Component(arg') : doneIndex(c) = i]_vars

\* C24 witness: on AAB / ABB, right after refresh(), conn_area of (2,0) has
\* marked the three cells holding B and left the three holding A unmarked.
C24_Witness ==
    /\ IsExampleMap
    /\ op = "conn_area" /\ arg = Grid(2, 0) /\ prevArea.fresh
    /\ {c \in ValidCells : done(c, DONE)} = {Grid(2, 0), Grid(1, 1), Grid(2, 1)}

\* C25: a set(width, height) made in the middle of an epoch leaves the
\* visited flag of every coordinate that is valid before and after it as
\* it was: what was visited is still reported visited, and nothing else is.
C25_SetKeepsFlags ==
    [][(op' = "set" /\ InStorage /\ InStorage')
          => \A c \in Storage :
                (valid(c) /\ valid(c)') => (done(c, DONE)' <=> done(c, DONE))]_vars

====
